---- MODULE Spec2Model ----
(***************************************************************************)
(* Model of the OpenAI GPT plugin (src/unnamed/part_000, compiled copy in  *)
(* src/plugins/openai/lib/gpt.js): the model registry, the request builder *)
(* toOpenAiRequestBody, the response converters fromOpenAiToolCall /       *)
(* fromOpenAiChoice / fromOpenAiChunkChoice and the runner gptRunner.      *)
(***************************************************************************)
EXTENDS Integers, Sequences, FiniteSets, TLC

VARIABLES
    pc,          \* position of the operation under way
    modelName,   \* the name passed to toOpenAiRequestBody / gptModel / gptRunner
    request,     \* the GenerateRequest
    out,         \* what toOpenAiRequestBody / gptModel / the runner returned or threw
    arg,         \* the vendor value handed to a response converter
    jsonMode,    \* the jsonMode parameter of the converter call
    ret,         \* what the converter returned or threw
    streaming,   \* whether the runner was given a streamingCallback
    chunks,      \* the chunks the stream has delivered so far, in order
    response,    \* the ChatCompletion the transport answered with
    callbacks,   \* the arguments of the streamingCallback invocations, in order
    transport    \* the calls made on the client, in order

callVars == <<modelName, request, out>>

convVars == <<arg, jsonMode, ret>>

runVars == <<streaming, chunks, response, callbacks, transport>>

vars == <<pc, callVars, convVars, runVars>>

(***************************************************************************)
(* Bounds of the model.                                                    *)
(***************************************************************************)
\* number of optional request fields given a value at once
MaxSet == 2
\* length up to which every string over ShortAlphabet is an argument string
MaxArgLen == 3
\* number of chunks a stream delivers at most
MaxChunks == 3

(***************************************************************************)
(* JavaScript values.  Every value is a record with one tag field, so     *)
(* that values of different JavaScript types can be compared.              *)
(* A string is either an atomic name (Str) or a sequence of characters     *)
(* (Chars) where the code looks inside it (JSON.parse, join).              *)
(***************************************************************************)
Undefined == [undef |-> TRUE]
Null == [null |-> TRUE]
Bool(b) == [bool |-> b]
Num(n) == [num |-> n]
Str(s) == [str |-> s]
Chars(s) == [chars |-> s]
Arr(s) == [arr |-> s]
Obj(s) == [obj |-> s]

IsUndefined(v) == "undef" \in DOMAIN v
IsArray(v) == "arr" \in DOMAIN v
IsString(v) == "str" \in DOMAIN v \/ "chars" \in DOMAIN v
IsEmptyArray(v) == IsArray(v) /\ v.arr = <<>>

\* ToBoolean(v) = false
Falsy(v) ==
    \/ "undef" \in DOMAIN v
    \/ "null" \in DOMAIN v
    \/ ("bool" \in DOMAIN v /\ ~v.bool)
    \/ ("num" \in DOMAIN v /\ v.num = 0)
    \/ ("str" \in DOMAIN v /\ v.str = "")
    \/ ("chars" \in DOMAIN v /\ v.chars = <<>>)

Truthy(v) == ~Falsy(v)

\* a || b
Or(a, b) == IF Truthy(a) THEN a ELSE b

\* a ?? b
Coalesce(a, b) == IF "undef" \in DOMAIN a \/ "null" \in DOMAIN a THEN b ELSE a

(***************************************************************************)
(* JSON.parse and JSON.stringify over strings of characters.  The input    *)
(* strings of the model are written in JsonAlphabet; the parser covers    *)
(* the JSON grammar over that alphabet: objects, arrays, strings, natural  *)
(* numbers without leading zero, and blank space around tokens.            *)
(***************************************************************************)
JsonAlphabet == {"{", "}", "[", "]", ":", ",", "\"", "x", "0", "1", " "}

Digits == {"0", "1", "2", "3", "4", "5", "6", "7", "8", "9"}

DigitVal(c) ==
    CASE c = "0" -> 0 [] c = "1" -> 1 [] c = "2" -> 2 [] c = "3" -> 3
      [] c = "4" -> 4 [] c = "5" -> 5 [] c = "6" -> 6 [] c = "7" -> 7
      [] c = "8" -> 8 [] c = "9" -> 9

DigitChar(d) == <<"0", "1", "2", "3", "4", "5", "6", "7", "8", "9">>[d + 1]

ParseFail == [ok |-> FALSE, val |-> Undefined, rest |-> <<>>]

ParseOk(v, rest) == [ok |-> TRUE, val |-> v, rest |-> rest]

RECURSIVE SkipWs(_)
SkipWs(s) == IF s # <<>> /\ Head(s) = " " THEN SkipWs(Tail(s)) ELSE s

RECURSIVE ParseDigits(_, _)
ParseDigits(s, acc) ==
    IF s # <<>> /\ Head(s) \in Digits
    THEN ParseDigits(Tail(s), 10 * acc + DigitVal(Head(s)))
    ELSE ParseOk(Num(acc), s)

\* s starts with a digit; "0" stands alone, so "01" leaves "1" unread
ParseNumber(s) ==
    IF Head(s) = "0" THEN ParseOk(Num(0), Tail(s)) ELSE ParseDigits(s, 0)

\* s is what follows the opening quote; acc the characters read so far
RECURSIVE ParseString(_, _)
ParseString(s, acc) ==
    IF s = <<>> THEN ParseFail
    ELSE IF Head(s) = "\"" THEN ParseOk(Chars(acc), Tail(s))
    ELSE IF Head(s) = "\\"
         THEN IF Len(s) >= 2 /\ s[2] \in {"\"", "\\"}
              THEN ParseString(Tail(Tail(s)), Append(acc, s[2]))
              ELSE ParseFail
    ELSE ParseString(Tail(s), Append(acc, Head(s)))

\* a property key that is a canonical array index
IsIndexKey(k) ==
    /\ k # <<>>
    /\ \A i \in 1..Len(k) : k[i] \in Digits
    /\ (Head(k) = "0" => Len(k) = 1)

IndexOf(k) == ParseDigits(k, 0).val.num

\* own-property order of an object: index keys ascending, then the others
\* in insertion order
KeyBefore(a, b) ==
    IF IsIndexKey(a)
    THEN (~IsIndexKey(b)) \/ IndexOf(a) < IndexOf(b)
    ELSE FALSE

\* members[k] = v on an object held as a sequence of [k, v] in own-property order
PutMember(members, k, v) ==
    IF \E i \in 1..Len(members) : members[i].k = k
    THEN [i \in 1..Len(members) |->
            IF members[i].k = k THEN [k |-> k, v |-> v] ELSE members[i]]
    ELSE LET before == SelectSeq(members, LAMBDA m : IsIndexKey(m.k)
                                     /\ ~KeyBefore(k, m.k))
             after == SelectSeq(members, LAMBDA m : ~(IsIndexKey(m.k)
                                     /\ ~KeyBefore(k, m.k)))
         IN  IF IsIndexKey(k)
             THEN before \o <<[k |-> k, v |-> v]>> \o after
             ELSE Append(members, [k |-> k, v |-> v])

RECURSIVE ParseValue(_), ParseElements(_, _), ParseMembers(_, _)
RECURSIVE ArrayBody(_), AfterElement(_, _), ElementEnd(_, _)
RECURSIVE ObjectBody(_), AfterKey(_, _), MemberValue(_, _, _)
RECURSIVE AfterMember(_, _, _), MemberEnd(_, _)

\* s has no leading blank
ParseValue(s) ==
    IF s = <<>> THEN ParseFail
    ELSE IF Head(s) = "[" THEN ArrayBody(SkipWs(Tail(s)))
    ELSE IF Head(s) = "{" THEN ObjectBody(SkipWs(Tail(s)))
    ELSE IF Head(s) = "\"" THEN ParseString(Tail(s), <<>>)
    ELSE IF Head(s) \in Digits THEN ParseNumber(s)
    ELSE ParseFail

\* t is what follows "[" and its blanks
ArrayBody(t) ==
    IF t # <<>> /\ Head(t) = "]" THEN ParseOk(Arr(<<>>), Tail(t))
    ELSE ParseElements(t, <<>>)

\* s starts an element; acc holds the elements read so far
ParseElements(s, acc) == AfterElement(ParseValue(s), acc)

\* r is the parse of an element
AfterElement(r, acc) ==
    IF ~r.ok THEN ParseFail ELSE ElementEnd(SkipWs(r.rest), Append(acc, r.val))

\* t is what follows an element and its blanks: "," and more, or "]"
ElementEnd(t, acc) ==
    IF t = <<>> THEN ParseFail
    ELSE IF Head(t) = "," THEN ParseElements(SkipWs(Tail(t)), acc)
    ELSE IF Head(t) = "]" THEN ParseOk(Arr(acc), Tail(t))
    ELSE ParseFail

\* t is what follows "{" and its blanks
ObjectBody(t) ==
    IF t # <<>> /\ Head(t) = "}" THEN ParseOk(Obj(<<>>), Tail(t))
    ELSE ParseMembers(t, <<>>)

\* s starts a member, which starts with its key, a string
ParseMembers(s, acc) ==
    IF s = <<>> \/ Head(s) # "\"" THEN ParseFail
    ELSE AfterKey(ParseString(Tail(s), <<>>), acc)

\* key is the parse of a member's key
AfterKey(key, acc) ==
    IF ~key.ok THEN ParseFail ELSE MemberValue(SkipWs(key.rest), key.val.chars, acc)

\* t is what follows the key k and its blanks: ":" and the value
MemberValue(t, k, acc) ==
    IF t = <<>> \/ Head(t) # ":" THEN ParseFail
    ELSE AfterMember(ParseValue(SkipWs(Tail(t))), k, acc)

\* r is the parse of the value of the member k
AfterMember(r, k, acc) ==
    IF ~r.ok THEN ParseFail ELSE MemberEnd(SkipWs(r.rest), PutMember(acc, k, r.val))

\* u is what follows a member and its blanks: "," and more, or "}"
MemberEnd(u, members) ==
    IF u = <<>> THEN ParseFail
    ELSE IF Head(u) = "," THEN ParseMembers(SkipWs(Tail(u)), members)
    ELSE IF Head(u) = "}" THEN ParseOk(Obj(members), Tail(u))
    ELSE ParseFail

\* r is the parse of the first value of the text: nothing but blanks may follow
WholeText(r) ==
    IF r.ok /\ SkipWs(r.rest) = <<>>
    THEN [ok |-> TRUE, val |-> r.val]
    ELSE [ok |-> FALSE, val |-> Undefined]

\* JSON.parse(s) of a string: [ok |-> TRUE, val] or a SyntaxError
JSONparse(s) == WholeText(ParseValue(SkipWs(s)))

RECURSIVE NatToChars(_)
NatToChars(n) ==
    IF n < 10 THEN <<DigitChar(n)>>
    ELSE Append(NatToChars(n \div 10), DigitChar(n % 10))

RECURSIVE QuoteChars(_)
QuoteChars(s) ==
    IF s = <<>> THEN <<>>
    ELSE (IF Head(s) \in {"\"", "\\"} THEN <<"\\", Head(s)>> ELSE <<Head(s)>>)
         \o QuoteChars(Tail(s))

RECURSIVE Serialize(_), SerializeElements(_), SerializeMembers(_, _)

\* the text JSON.stringify writes for a value that has one
Serialize(v) ==
    IF "num" \in DOMAIN v
    THEN (IF v.num < 0 THEN <<"-">> \o NatToChars(-v.num) ELSE NatToChars(v.num))
    ELSE IF "chars" \in DOMAIN v THEN <<"\"">> \o QuoteChars(v.chars) \o <<"\"">>
    ELSE IF "bool" \in DOMAIN v
         THEN (IF v.bool THEN <<"t", "r", "u", "e">> ELSE <<"f", "a", "l", "s", "e">>)
    ELSE IF "arr" \in DOMAIN v THEN <<"[">> \o SerializeElements(v.arr) \o <<"]">>
    ELSE IF "obj" \in DOMAIN v THEN <<"{">> \o SerializeMembers(v.obj, TRUE) \o <<"}">>
    ELSE <<"n", "u", "l", "l">>

SerializeElements(s) ==
    IF s = <<>> THEN <<>>
    ELSE Serialize(Head(s))
         \o (IF Tail(s) = <<>> THEN <<>> ELSE <<",">> \o SerializeElements(Tail(s)))

\* members whose value is undefined are left out
SerializeMembers(s, first) ==
    IF s = <<>> THEN <<>>
    ELSE IF IsUndefined(Head(s).v) THEN SerializeMembers(Tail(s), first)
    ELSE (IF first THEN <<>> ELSE <<",">>)
         \o <<"\"">> \o QuoteChars(Head(s).k) \o <<"\"", ":">>
         \o Serialize(Head(s).v) \o SerializeMembers(Tail(s), FALSE)

\* JSON.stringify(v): a string, or undefined for undefined
JSONstringify(v) == IF IsUndefined(v) THEN Undefined ELSE Chars(Serialize(v))

(***************************************************************************)
(* The registry of models.                                                 *)
(***************************************************************************)
MODELS_SUPPORTING_OPENAI_RESPONSE_FORMAT ==
    {"gpt-4o", "gpt-4o-2024-05-13", "gpt-4o-mini", "gpt-4o-mini-2024-07-18",
     "gpt-4-turbo", "gpt-4-turbo-2024-04-09", "gpt-4-turbo-preview",
     "gpt-4-0125-preview", "gpt-4-1106-preview", "gpt-3.5-turbo-0125",
     "gpt-3.5-turbo", "gpt-3.5-turbo-1106"}

\* A model reference as modelRef is given it: name and info; no version is
\* passed for any of them, so model.version reads undefined.
ModelRef(name, versions, tools, media, output) ==
    [name |-> name,
     version |-> Undefined,
     info |-> [versions |-> versions,
               supports |-> [multiturn |-> TRUE, tools |-> tools, media |-> media,
                             systemRole |-> TRUE, output |-> output]]]

gpt4o ==
    ModelRef("openai/gpt-4o", <<"gpt-4o", "gpt-4o-2024-05-13">>,
             TRUE, TRUE, <<"text", "json">>)

gpt4oMini ==
    ModelRef("openai/gpt-4o-mini", <<"gpt-4o-mini", "gpt-4o-mini-2024-07-18">>,
             TRUE, TRUE, <<"text", "json">>)

gpt4Turbo ==
    ModelRef("openai/gpt-4-turbo",
             <<"gpt-4-turbo", "gpt-4-turbo-2024-04-09", "gpt-4-turbo-preview",
               "gpt-4-0125-preview", "gpt-4-1106-preview">>,
             TRUE, TRUE, <<"text", "json">>)

gpt4Vision ==
    ModelRef("openai/gpt-4-vision",
             <<"gpt-4-vision-preview", "gpt-4-1106-vision-preview">>,
             FALSE, TRUE, <<"text">>)

gpt4 ==
    ModelRef("openai/gpt-4", <<"gpt-4", "gpt-4-0613", "gpt-4-32k", "gpt-4-32k-0613">>,
             TRUE, FALSE, <<"text">>)

gpt35Turbo ==
    ModelRef("openai/gpt-3.5-turbo",
             <<"gpt-3.5-turbo-0125", "gpt-3.5-turbo", "gpt-3.5-turbo-1106">>,
             TRUE, FALSE, <<"json", "text">>)

\* the own keys of the registry object
RegistryKeys ==
    {"gpt-4o", "gpt-4o-mini", "gpt-4-turbo", "gpt-4-vision", "gpt-4", "gpt-3.5-turbo"}

SUPPORTED_GPT_MODELS ==
    [k \in RegistryKeys |->
        CASE k = "gpt-4o" -> gpt4o
          [] k = "gpt-4o-mini" -> gpt4oMini
          [] k = "gpt-4-turbo" -> gpt4Turbo
          [] k = "gpt-4-vision" -> gpt4Vision
          [] k = "gpt-4" -> gpt4
          [] k = "gpt-3.5-turbo" -> gpt35Turbo]

\* The registry is an object literal, so reading a key it does not own falls
\* through to Object.prototype: these names read an inherited member (a
\* function or object, truthy, with no version and no info).
ObjectPrototypeKeys ==
    {"constructor", "toString", "valueOf", "hasOwnProperty", "isPrototypeOf",
     "propertyIsEnumerable", "toLocaleString", "__proto__"}

\* SUPPORTED_GPT_MODELS[name]
Lookup(name) ==
    IF name \in RegistryKeys
    THEN [kind |-> "model", model |-> SUPPORTED_GPT_MODELS[name]]
    ELSE IF name \in ObjectPrototypeKeys
    THEN [kind |-> "inherited", model |-> Undefined]
    ELSE [kind |-> "undefined", model |-> Undefined]

Includes(seq, x) == \E i \in 1..Len(seq) : seq[i] = x

(***************************************************************************)
(* Request building: roles, parts, messages, tools, body.                  *)
(* A call that may throw returns [ok |-> TRUE, val |-> v] or               *)
(* [ok |-> FALSE, error |-> e].                                            *)
(***************************************************************************)
Return(v) == [ok |-> TRUE, val |-> v]

Throw(e) == [ok |-> FALSE, error |-> e]

\* a mapping that also lets the vendor's own name for the model role through
toOpenAIRoleWithAlias(role) ==
    CASE role = "user" -> Return("user")
      [] role \in {"model", "assistant"} -> Return("assistant")
      [] role = "system" -> Return("system")
      [] role = "tool" -> Return("tool")
      [] OTHER -> Throw("UnmappableRole")

toOpenAIRole(role) ==
    CASE role = "user" -> Return("user")
      [] role = "model" -> Return("assistant")
      [] role = "system" -> Return("system")
      [] role = "tool" -> Return("tool")
      [] OTHER -> Throw("UnmappableRole")

toOpenAiTool(tool) ==
    [type |-> "function",
     function |-> [name |-> tool.name, parameters |-> tool.inputSchema]]

toOpenAiTextAndMedia(part, visualDetailLevel) ==
    IF Truthy(part.text)
    THEN Return([type |-> "text", text |-> part.text])
    ELSE IF Truthy(part.media)
    THEN Return([type |-> "image_url",
                 image_url |-> [url |-> part.media.url,
                                detail |-> visualDetailLevel]])
    ELSE Throw("UnsupportedPart")

\* content.map(f) for an f that may throw: the first throw ends the map
RECURSIVE MapParts(_, _, _)
MapParts(content, visualDetailLevel, acc) ==
    IF content = <<>> THEN Return(acc)
    ELSE LET item == toOpenAiTextAndMedia(Head(content), visualDetailLevel)
         IN  IF ~item.ok THEN item
             ELSE MapParts(Tail(content), visualDetailLevel, Append(acc, item.val))

\* Message.text(): the text of the parts, '' for a part without, joined
RECURSIVE MessageText(_)
MessageText(content) ==
    IF content = <<>> THEN <<>>
    ELSE (IF Truthy(Head(content).text) THEN Head(content).text.chars ELSE <<>>)
         \o MessageText(Tail(content))

\* Message.toolResponseParts()
ToolResponseParts(content) == SelectSeq(content, LAMBDA part : Truthy(part.toolResponse))

ToolRequestParts(content) == SelectSeq(content, LAMBDA part : Truthy(part.toolRequest))

\* a tool call that carries the part's ref as it is, absent when absent
ToolCallOfPartRawRef(part) ==
    [id |-> part.toolRequest.ref,
     type |-> "function",
     function |-> [name |-> part.toolRequest.name,
                   arguments |-> JSONstringify(part.toolRequest.input)]]

ToolCallOfPart(part) ==
    [id |-> Coalesce(part.toolRequest.ref, Str("")),
     type |-> "function",
     function |-> [name |-> part.toolRequest.name,
                   arguments |-> JSONstringify(part.toolRequest.input)]]

\* a tool message that serializes every output, a string included
ToolMessageOfPartSerializing(part) ==
    [role |-> "tool",
     tool_call_id |-> Coalesce(part.toolResponse.ref, Str("")),
     content |-> JSONstringify(part.toolResponse.output)]

ToolMessageOfPart(part) ==
    [role |-> "tool",
     tool_call_id |-> Coalesce(part.toolResponse.ref, Str("")),
     content |-> IF IsString(part.toolResponse.output)
                 THEN part.toolResponse.output
                 ELSE JSONstringify(part.toolResponse.output)]

\* the vendor messages one message appends, once its role is mapped
MessagesOf(message, role, visualDetailLevel) ==
    CASE role = "user" ->
            LET content == MapParts(message.content, visualDetailLevel, <<>>)
            IN  IF content.ok
                THEN Return(<<[role |-> role, content |-> Arr(content.val)]>>)
                ELSE content
      [] role = "system" ->
            Return(<<[role |-> role, content |-> Chars(MessageText(message.content))]>>)
      [] role = "assistant" ->
            LET parts == ToolRequestParts(message.content)
                toolCalls == [i \in 1..Len(parts) |-> ToolCallOfPart(parts[i])]
            IN  IF Len(toolCalls) > 0
                THEN Return(<<[role |-> role, tool_calls |-> Arr(toolCalls)]>>)
                ELSE Return(<<[role |-> role,
                               content |-> Chars(MessageText(message.content))]>>)
      [] role = "tool" ->
            LET toolResponseParts == ToolResponseParts(message.content)
            IN  Return([i \in 1..Len(toolResponseParts) |->
                          ToolMessageOfPart(toolResponseParts[i])])

RECURSIVE ConvertMessages(_, _, _)
ConvertMessages(messages, visualDetailLevel, openAiMsgs) ==
    IF messages = <<>> THEN Return(openAiMsgs)
    ELSE LET role == toOpenAIRole(Head(messages).role)
         IN  IF ~role.ok THEN role
             ELSE LET more == MessagesOf(Head(messages), role.val, visualDetailLevel)
                  IN  IF ~more.ok THEN more
                      ELSE ConvertMessages(Tail(messages), visualDetailLevel,
                                           openAiMsgs \o more.val)

\* the default parameter value applies to undefined only
toOpenAiMessages(messages, visualDetailLevel) ==
    ConvertMessages(messages,
                    IF IsUndefined(visualDetailLevel) THEN Str("auto")
                    ELSE visualDetailLevel,
                    <<>>)

\* a resolution that lets the registry name win over the override
MappedModelNameNameFirst(name, req, model) ==
    Or(Or(Str(name), model.version), req.config.version)

\* request.config?.version || model.version || modelName
MappedModelName(name, req, model) ==
    Or(Or(req.config.version, model.version), Str(name))

ConfigKeys ==
    {"temperature", "max_tokens", "top_p", "stop", "frequency_penalty", "logit_bias",
     "logprobs", "presence_penalty", "seed", "top_logprobs", "user"}

\* the request.config field each sampling key of the body literal reads
FieldOfKey(k) ==
    CASE k = "temperature" -> "temperature"
      [] k = "max_tokens" -> "maxOutputTokens"
      [] k = "top_p" -> "topP"
      [] k = "stop" -> "stopSequences"
      [] k = "frequency_penalty" -> "frequencyPenalty"
      [] k = "logit_bias" -> "logitBias"
      [] k = "logprobs" -> "logProbs"
      [] k = "presence_penalty" -> "presencePenalty"
      [] k = "seed" -> "seed"
      [] k = "top_logprobs" -> "topLogProbs"
      [] k = "user" -> "user"

\* a body literal whose top_logprobs reads logProbs
SamplingFieldMixedUp(k, req) ==
    req.config[IF k = "top_logprobs" THEN "logProbs" ELSE FieldOfKey(k)]

\* request.config?.<field> for the sampling key k
SamplingField(k, req) == req.config[FieldOfKey(k)]

\* the body literal, before response_format and before the falsy fields go
BodyLiteral(mappedModelName, openAiMessages, req) ==
    [k \in {"model", "messages", "tools", "n"} \cup ConfigKeys |->
        CASE k = "model" -> mappedModelName
          [] k = "messages" -> Arr(openAiMessages)
          [] k = "tools" -> IF IsUndefined(req.tools) THEN Undefined
                            ELSE Arr([i \in 1..Len(req.tools.arr) |->
                                        toOpenAiTool(req.tools.arr[i])])
          [] k = "n" -> req.candidates
          [] OTHER -> SamplingField(k, req)]

\* an allow-list test that lets every version through
InAllowListAlways(mappedModelName) == TRUE

\* MODELS_SUPPORTING_OPENAI_RESPONSE_FORMAT.includes(mappedModelName)
InAllowList(mappedModelName) ==
    mappedModelName.str \in MODELS_SUPPORTING_OPENAI_RESPONSE_FORMAT

\* The response_format negotiation: the directive to set, Undefined for
\* none, or a throw.  model.info is undefined on an inherited member, and
\* reading .supports of it is a TypeError.
ResponseFormat(response_format, mappedModelName, model) ==
    IF Truthy(response_format) /\ InAllowList(mappedModelName)
    THEN IF response_format = Str("json")
         THEN IF IsUndefined(model.info) THEN Throw("TypeError")
              ELSE IF Includes(model.info.supports.output, "json")
              THEN Return([type |-> "json_object"])
              ELSE Throw("UnsupportedOutputFormat")
         ELSE IF response_format = Str("text")
         THEN IF IsUndefined(model.info) THEN Throw("TypeError")
              ELSE IF Includes(model.info.supports.output, "text")
              THEN Return([type |-> "text"])
              ELSE Throw("UnsupportedOutputFormat")
         ELSE Throw("UnsupportedOutputFormat")
    ELSE Return(Undefined)

WithResponseFormat(body, directive) ==
    IF IsUndefined(directive) THEN body
    ELSE [k \in DOMAIN body \cup {"response_format"} |->
            IF k = "response_format" THEN directive ELSE body[k]]

\* a strip that deletes the unset fields only
StripBodyUnsetOnly(body) ==
    [k \in {key \in DOMAIN body : ~IsUndefined(body[key])} |-> body[k]]

\* for (const key in body) if (!body[key] || empty array) delete body[key]
StripBody(body) ==
    [k \in {key \in DOMAIN body :
               ~(Falsy(body[key]) \/ (IsArray(body[key]) /\ body[key].arr = <<>>))}
       |-> body[k]]

\* what is read of an inherited Object.prototype member
InheritedMember == [version |-> Undefined, info |-> Undefined]

toOpenAiRequestBody(name, req) ==
    LET found == Lookup(name)
        model == IF found.kind = "model" THEN found.model ELSE InheritedMember
        openAiMessages == toOpenAiMessages(req.messages, req.config.visualDetailLevel)
        mappedModelName == MappedModelName(name, req, model)
        directive == ResponseFormat(req.output.format, mappedModelName, model)
    IN  IF found.kind = "undefined" THEN Throw("UnsupportedModel")
        ELSE IF ~openAiMessages.ok THEN openAiMessages
        ELSE IF ~directive.ok THEN directive
        ELSE Return(StripBody(WithResponseFormat(
                 BodyLiteral(mappedModelName, openAiMessages.val, req),
                 directive.val)))

\* gptModel: the model action defineModel is given, keyed by the registry
gptModel(name) ==
    LET found == Lookup(name)
    IN  IF found.kind = "undefined" THEN Throw("UnsupportedModel")
        ELSE Return([name |-> "openai/" \o name,
                     info |-> IF found.kind = "model" THEN found.model.info ELSE Undefined,
                     runner |-> name])

(***************************************************************************)
(* Response conversion.                                                    *)
(***************************************************************************)
\* The own keys of finishReasonMap.  It is an object literal as well: a
\* finish_reason naming an inherited member reads that member.
finishReasonMap(reason) ==
    IF ~("str" \in DOMAIN reason) THEN Undefined
    ELSE CASE reason.str = "length" -> Str("length")
           [] reason.str = "stop" -> Str("stop")
           [] reason.str = "tool_calls" -> Str("stop")
           [] reason.str = "content_filter" -> Str("blocked")
           [] reason.str \in ObjectPrototypeKeys -> [inherited |-> reason.str]
           [] OTHER -> Undefined

\* JSON.parse(v): the argument is turned into a string first, so null reads
\* as the text null and undefined as a text that is no JSON
JSONparseValue(v) ==
    IF "chars" \in DOMAIN v THEN JSONparse(v.chars)
    ELSE IF "null" \in DOMAIN v THEN [ok |-> TRUE, val |-> Null]
    ELSE [ok |-> FALSE, val |-> Undefined]

\* try { args = JSON.parse(arguments) } catch (e) { args = arguments }
ParsedOrRaw(parsed, arguments) == IF parsed.ok THEN parsed.val ELSE arguments

\* a conversion that lets the parse error of the arguments escape
fromOpenAiToolCallStrict(toolCall) ==
    IF Falsy(toolCall.function) THEN Throw("MalformedToolCall")
    ELSE IF Truthy(toolCall.function.arguments)
            /\ ~JSONparseValue(toolCall.function.arguments).ok
    THEN Throw("SyntaxError")
    ELSE Return([toolRequest |->
            [name |-> toolCall.function.name,
             ref |-> toolCall.id,
             input |-> IF Truthy(toolCall.function.arguments)
                       THEN JSONparseValue(toolCall.function.arguments).val
                       ELSE toolCall.function.arguments]])

\* a conversion that lets an entry without a function payload through
fromOpenAiToolCallTolerant(toolCall) ==
    IF Falsy(toolCall.function)
    THEN Return([toolRequest |->
            [name |-> Undefined, ref |-> toolCall.id, input |-> Undefined]])
    ELSE Return([toolRequest |->
            [name |-> toolCall.function.name,
             ref |-> toolCall.id,
             input |-> IF Truthy(toolCall.function.arguments)
                       THEN ParsedOrRaw(JSONparseValue(toolCall.function.arguments),
                                        toolCall.function.arguments)
                       ELSE toolCall.function.arguments]])

fromOpenAiToolCall(toolCall) ==
    IF Falsy(toolCall.function) THEN Throw("MalformedToolCall")
    ELSE Return([toolRequest |->
            [name |-> toolCall.function.name,
             ref |-> toolCall.id,
             input |-> IF Truthy(toolCall.function.arguments)
                       THEN ParsedOrRaw(JSONparseValue(toolCall.function.arguments),
                                        toolCall.function.arguments)
                       ELSE toolCall.function.arguments]])

\* tool_calls?.map(fromOpenAiToolCall): undefined when there is no list, the
\* parts otherwise; the first throw ends the map
RECURSIVE MapToolCalls(_, _), AfterToolCall(_, _, _)
MapToolCalls(toolCalls, acc) ==
    IF toolCalls = <<>> THEN Return(Arr(acc))
    ELSE AfterToolCall(fromOpenAiToolCall(Head(toolCalls)), Tail(toolCalls), acc)

\* part is the conversion of the tool call before those of rest
AfterToolCall(part, rest, acc) ==
    IF ~part.ok THEN part ELSE MapToolCalls(rest, Append(acc, part.val))

OptionalMapToolCalls(tool_calls) ==
    IF IsArray(tool_calls) THEN MapToolCalls(tool_calls.arr, <<>>)
    ELSE Return(Undefined)

\* parsed is JSON.parse(content)
DataPart(parsed) ==
    IF parsed.ok THEN Return(<<[data |-> parsed.val]>>) ELSE Throw("SyntaxError")

\* a content part that keeps the text when the content is no JSON
ContentPartLenient(content, json) ==
    IF json /\ JSONparseValue(content).ok
    THEN Return(<<[data |-> JSONparseValue(content).val]>>)
    ELSE Return(<<[text |-> content]>>)

\* [jsonMode ? {data: JSON.parse(content)} : {text: content}]
ContentPart(content, json) ==
    IF json THEN DataPart(JSONparseValue(content))
    ELSE Return(<<[text |-> content]>>)

Candidate(index, finishReason, content) ==
    [index |-> index,
     finishReason |-> finishReason,
     message |-> [role |-> "model", content |-> content],
     custom |-> Obj(<<>>)]

\* the candidate literal around a content that was computed or threw
CandidateOf(index, finishReason, content) ==
    IF ~content.ok THEN content
    ELSE Return(Candidate(index, finishReason, content.val))

\* toolRequestParts && toolRequestParts.length > 0 ? toolRequestParts : [...]
ChoiceContent(toolRequestParts, content, json) ==
    IF ~toolRequestParts.ok THEN toolRequestParts
    ELSE IF Truthy(toolRequestParts.val) /\ Len(toolRequestParts.val.arr) > 0
    THEN Return(toolRequestParts.val.arr)
    ELSE ContentPart(content, json)

\* toolRequestParts ? toolRequestParts : [...]
ChunkChoiceContent(toolRequestParts, content, json) ==
    IF ~toolRequestParts.ok THEN toolRequestParts
    ELSE IF Truthy(toolRequestParts.val) THEN Return(toolRequestParts.val.arr)
    ELSE ContentPart(content, json)

fromOpenAiChoice(choice, json) ==
    CandidateOf(choice.index,
                Or(finishReasonMap(choice.finish_reason), Str("other")),
                ChoiceContent(OptionalMapToolCalls(choice.message.tool_calls),
                              choice.message.content, json))

fromOpenAiChunkChoice(choice, json) ==
    CandidateOf(choice.index,
                IF Truthy(choice.finish_reason)
                THEN Or(finishReasonMap(choice.finish_reason), Str("other"))
                ELSE Str("unknown"),
                ChunkChoiceContent(OptionalMapToolCalls(choice.delta.tool_calls),
                                   choice.delta.content, json))

(***************************************************************************)
(* The requests of the model.  A request gives a value to at most MaxSet   *)
(* of its optional fields; every other field is left unset (no messages).  *)
(* Each field draws from values the config schema admits, a falsy one      *)
(* among them where the schema admits one.                                 *)
(***************************************************************************)
Part(text, media, toolRequest, toolResponse) ==
    [text |-> text, media |-> media, toolRequest |-> toolRequest,
     toolResponse |-> toolResponse]

TextPart(chars) == Part(Chars(chars), Undefined, Undefined, Undefined)

MediaPart(url) == Part(Undefined, [url |-> Str(url)], Undefined, Undefined)

ToolRequestPart(name, ref, input) ==
    Part(Undefined, Undefined, [name |-> Str(name), ref |-> ref, input |-> input],
         Undefined)

ToolResponsePart(name, ref, output) ==
    Part(Undefined, Undefined, Undefined,
         [name |-> Str(name), ref |-> ref, output |-> output])

Message(role, content) == [role |-> role, content |-> content]

SampleMessages ==
    << <<Message("user", <<TextPart(<<"x">>)>>)>>,
       <<Message("system", <<TextPart(<<"x">>)>>),
         Message("user", <<TextPart(<<"1">>), MediaPart("data:image/png")>>)>>,
       <<Message("user", <<TextPart(<<"x">>)>>),
         Message("model", <<ToolRequestPart("f", Str("call-1"), Arr(<<Num(1)>>))>>),
         Message("tool", <<ToolResponsePart("f", Str("call-1"), Num(1))>>)>>,
       <<Message("function", <<TextPart(<<"x">>)>>)>>,
       <<Message("user", <<ToolRequestPart("f", Undefined, Num(1))>>)>> >>

SampleTools ==
    << Arr(<<>>),
       Arr(<<[name |-> Str("f"), inputSchema |-> Obj(<<>>)]>>),
       Arr(<<[name |-> Str("f"), inputSchema |-> Obj(<<>>)],
             [name |-> Str("g"), inputSchema |-> Undefined]>>) >>

OptionalFields ==
    {"messages", "tools", "candidates", "format", "version", "visualDetailLevel",
     "temperature", "maxOutputTokens", "topP", "stopSequences", "frequencyPenalty",
     "logitBias", "logProbs", "presencePenalty", "seed", "topLogProbs", "user"}

FieldValues(f) ==
    CASE f = "messages" -> SampleMessages
      [] f = "tools" -> SampleTools
      [] f = "candidates" -> <<Num(0), Num(2)>>
      [] f = "format" -> <<Str("json"), Str("text"), Str("media")>>
      [] f = "version" ->
            <<Str(""), Str("gpt-4o-2024-05-13"), Str("gpt-4-0613"), Str("gpt-3.5-turbo")>>
      [] f = "visualDetailLevel" -> <<Str("auto"), Str("low"), Str("high")>>
      [] f = "temperature" -> <<Num(0), Num(1)>>
      [] f = "maxOutputTokens" -> <<Num(0), Num(256)>>
      [] f = "topP" -> <<Num(0), Num(1)>>
      [] f = "stopSequences" -> <<Arr(<<>>), Arr(<<Str("END")>>)>>
      [] f = "frequencyPenalty" -> <<Num(0), Num(2)>>
      [] f = "logitBias" ->
            <<Obj(<<>>), Obj(<<[k |-> <<"1", "0">>, v |-> Num(-100)]>>)>>
      [] f = "logProbs" -> <<Bool(FALSE), Bool(TRUE)>>
      [] f = "presencePenalty" -> <<Num(0), Num(-2)>>
      [] f = "seed" -> <<Num(0), Num(42)>>
      [] f = "topLogProbs" -> <<Num(0), Num(20)>>
      [] f = "user" -> <<Str(""), Str("user-1")>>

\* the request that gives the fields in DOMAIN c their c[f]-th value
MakeRequest(c) ==
    LET Val(f) == IF f \in DOMAIN c THEN FieldValues(f)[c[f]] ELSE Undefined
    IN  [messages |-> IF "messages" \in DOMAIN c THEN Val("messages") ELSE <<>>,
         config |-> [version |-> Val("version"),
                     visualDetailLevel |-> Val("visualDetailLevel"),
                     temperature |-> Val("temperature"),
                     maxOutputTokens |-> Val("maxOutputTokens"),
                     topP |-> Val("topP"),
                     stopSequences |-> Val("stopSequences"),
                     frequencyPenalty |-> Val("frequencyPenalty"),
                     logitBias |-> Val("logitBias"),
                     logProbs |-> Val("logProbs"),
                     presencePenalty |-> Val("presencePenalty"),
                     seed |-> Val("seed"),
                     topLogProbs |-> Val("topLogProbs"),
                     user |-> Val("user")],
         tools |-> Val("tools"),
         candidates |-> Val("candidates"),
         output |-> [format |-> Val("format")]]

FieldChoices ==
    UNION {{c \in [S -> 1..Len(SampleMessages)] : \A f \in S : c[f] <= Len(FieldValues(f))} :
             S \in {S \in SUBSET OptionalFields : Cardinality(S) <= MaxSet}}

Requests == {MakeRequest(c) : c \in FieldChoices}

\* registry keys, a version that is no key, unknown names, inherited names
ModelNames ==
    RegistryKeys \cup {"gpt-4o-2024-05-13", "gpt-5", "", "constructor", "__proto__"}

NoValue == [none |-> TRUE]

\* no run of the runner is under way
RunIdle ==
    /\ streaming = FALSE
    /\ chunks = <<>>
    /\ response = NoValue
    /\ callbacks = <<>>
    /\ transport = <<>>

(***************************************************************************)
(* SpecBody: one call of toOpenAiRequestBody or of gptModel.               *)
(***************************************************************************)
InitBody ==
    /\ pc = "call"
    /\ modelName \in ModelNames
    /\ request \in Requests
    /\ out = NoValue
    /\ arg = NoValue
    /\ jsonMode = FALSE
    /\ ret = NoValue
    /\ RunIdle

ToOpenAiRequestBody ==
    /\ pc = "call"
    /\ out' = toOpenAiRequestBody(modelName, request)
    /\ pc' = "built"
    /\ UNCHANGED <<modelName, request, convVars, runVars>>

GptModel ==
    /\ pc = "call"
    /\ out' = gptModel(modelName)
    /\ pc' = "defined"
    /\ UNCHANGED <<modelName, request, convVars, runVars>>

NextBody == ToOpenAiRequestBody \/ GptModel

SpecBody == InitBody /\ [][NextBody]_vars

(***************************************************************************)
(* Properties of toOpenAiRequestBody and gptModel, checked under SpecBody. *)
(***************************************************************************)
Built == pc = "built"

ReturnedBody == pc = "built" /\ out.ok

Supported == modelName \in RegistryKeys

Descriptor == SUPPORTED_GPT_MODELS[modelName]

RequestedFormat == request.output.format

\* the version the request resolves to: the override when one is given, else
\* the descriptor's default when it has one, else the name passed in
ResolvedVersion ==
    IF Truthy(request.config.version) THEN request.config.version
    ELSE IF Supported /\ Truthy(Descriptor.version) THEN Descriptor.version
    ELSE Str(modelName)

VersionAllowed == ResolvedVersion.str \in MODELS_SUPPORTING_OPENAI_RESPONSE_FORMAT

DescriptorSupportsFormat ==
    /\ Supported
    /\ IsString(RequestedFormat)
    /\ Includes(Descriptor.info.supports.output, RequestedFormat.str)

\* C1: for a supported model and a request that asks for an output format,
\* when the resolved version is not in the allow-list or the descriptor does
\* not list the format, the call fails (with the unsupported-output-format
\* error, once the messages have converted) and returns no body.
C1_UnsupportedFormatFails ==
    (Built /\ Supported /\ Truthy(RequestedFormat)
       /\ (~VersionAllowed \/ ~DescriptorSupportsFormat))
    => /\ ~out.ok
       /\ (toOpenAiMessages(request.messages, request.config.visualDetailLevel).ok
             => out.error = "UnsupportedOutputFormat")

\* C3: every descriptor lists at least one output format, and the tool
\* definitions of a request are in the returned body exactly when the
\* descriptor's tools flag is true.
C3_ToolsFlagAgrees ==
    /\ \A k \in RegistryKeys : Len(SUPPORTED_GPT_MODELS[k].info.supports.output) > 0
    /\ (ReturnedBody /\ Supported /\ IsArray(request.tools) /\ request.tools.arr # <<>>)
       => (("tools" \in DOMAIN out.val) <=> Descriptor.info.supports.tools)

\* the vendor field name the body carries each config field under
VendorName(f) ==
    CASE f = "temperature" -> "temperature"
      [] f = "topP" -> "top_p"
      [] f = "maxOutputTokens" -> "max_tokens"
      [] f = "stopSequences" -> "stop"
      [] f = "frequencyPenalty" -> "frequency_penalty"
      [] f = "presencePenalty" -> "presence_penalty"
      [] f = "logitBias" -> "logit_bias"
      [] f = "logProbs" -> "logprobs"
      [] f = "topLogProbs" -> "top_logprobs"
      [] f = "seed" -> "seed"
      [] f = "user" -> "user"

SamplingFields ==
    {"temperature", "topP", "maxOutputTokens", "stopSequences", "frequencyPenalty",
     "presencePenalty", "logitBias", "logProbs", "topLogProbs", "seed", "user"}

\* C4: a returned body has no key whose value is falsy or an empty array,
\* and no key at all for a config field the caller left unset.
C4_NoFalsyField ==
    ReturnedBody
    => /\ \A k \in DOMAIN out.val : Truthy(out.val[k]) /\ ~IsEmptyArray(out.val[k])
       /\ \A f \in SamplingFields :
             IsUndefined(request.config[f]) => VendorName(f) \notin DOMAIN out.val

C4_Witness ==
    /\ ReturnedBody
    /\ request.config.temperature = Num(0)
    /\ IsUndefined(request.config.seed)
    /\ request.config.stopSequences = Arr(<<>>)
    /\ DOMAIN out.val = {"model"}

\* C5 as stated: every config field the caller sets, and the candidate
\* count, is in the returned body with the same value under the vendor name.
C5_SetFieldsCarried ==
    ReturnedBody
    => /\ \A f \in SamplingFields :
             ~IsUndefined(request.config[f])
             => /\ VendorName(f) \in DOMAIN out.val
                /\ out.val[VendorName(f)] = request.config[f]
       /\ ~IsUndefined(request.candidates)
             => ("n" \in DOMAIN out.val /\ out.val["n"] = request.candidates)

\* C5 amended: every config field, and the candidate count, that the caller
\* sets to a truthy value other than an empty array is in the returned body
\* with the same value under the vendor name; one set to a falsy value or an
\* empty array has no key in the body.
C5_TruthyFieldsCarried ==
    ReturnedBody
    => /\ \A f \in SamplingFields :
             IF Truthy(request.config[f]) /\ ~IsEmptyArray(request.config[f])
             THEN /\ VendorName(f) \in DOMAIN out.val
                  /\ out.val[VendorName(f)] = request.config[f]
             ELSE VendorName(f) \notin DOMAIN out.val
       /\ IF Truthy(request.candidates)
          THEN "n" \in DOMAIN out.val /\ out.val["n"] = request.candidates
          ELSE "n" \notin DOMAIN out.val

C5_Witness ==
    /\ ReturnedBody
    /\ request.config.topLogProbs = Num(20)
    /\ request.config.logProbs = Bool(FALSE)
    /\ out.val["top_logprobs"] = Num(20)
    /\ "logprobs" \notin DOMAIN out.val

\* C6: a returned body carries a response_format only when a format was
\* requested, the resolved version is in the allow-list and the descriptor
\* lists the format; its type is json_object for json and text for text;
\* with no format requested there is no response_format key.
C6_DirectiveOnlyWhenAllowed ==
    ReturnedBody
    => /\ "response_format" \in DOMAIN out.val
          => /\ Truthy(RequestedFormat)
             /\ VersionAllowed
             /\ DescriptorSupportsFormat
             /\ RequestedFormat = Str("json") => out.val["response_format"].type = "json_object"
             /\ RequestedFormat = Str("text") => out.val["response_format"].type = "text"
             /\ RequestedFormat \in {Str("json"), Str("text")}
       /\ IsUndefined(RequestedFormat) => "response_format" \notin DOMAIN out.val

C6_Witness ==
    /\ ReturnedBody
    /\ modelName = "gpt-3.5-turbo"
    /\ RequestedFormat = Str("json")
    /\ out.val["response_format"] = [type |-> "json_object"]

\* C7: a name that is no key of the registry makes toOpenAiRequestBody and
\* gptModel fail with the unsupported-model error; a name that is a key
\* never raises that error.
C7_ExactLookup ==
    (pc \in {"built", "defined"})
    => /\ ~Supported => (~out.ok /\ out.error = "UnsupportedModel")
       /\ Supported => ~(~out.ok /\ out.error = "UnsupportedModel")

\* C8: the model field of a returned body is the version override when one
\* is given, else the descriptor's default version when it has one, else the
\* name passed in; and that same value is the one the allow-list is asked
\* about: a requested format yields a directive exactly when it is listed.
C8_ModelFieldPriority ==
    ReturnedBody
    => /\ out.val["model"] = ResolvedVersion
       /\ Truthy(RequestedFormat)
          => ("response_format" \in DOMAIN out.val
                <=> out.val["model"].str \in MODELS_SUPPORTING_OPENAI_RESPONSE_FORMAT)

C8_Witness ==
    /\ ReturnedBody
    /\ modelName = "gpt-4"
    /\ request.config.version = Str("gpt-4o-2024-05-13")
    /\ RequestedFormat = Str("text")
    /\ out.val["model"] = Str("gpt-4o-2024-05-13")
    /\ "response_format" \in DOMAIN out.val

(***************************************************************************)
(* SpecConv: one call of a response converter on a vendor value.           *)
(* The strings are every string of at most MaxArgLen characters over       *)
(* ShortAlphabet, and longer samples that hold objects.                    *)
(***************************************************************************)
ShortAlphabet == {"[", "]", ",", "\"", "x", "0", "1", " "}

StringsUpTo(n) == UNION {[1..m -> ShortAlphabet] : m \in 0..n}

SampleStrings ==
    { <<"{", "\"", "x", "\"", ":", "1", "}">>,
      <<"{", "\"", "x", "\"", ":", "1", ",", "\"", "x", "\"", ":", "0", "}">>,
      <<"{", " ", "}">>,
      <<"{", "\"", "x", "\"", ":", "[", "1", ",", "0", "]", "}">>,
      <<"{", "x", ":", "1", "}">>,
      <<"[", "1", ",", "[", "0", "]", "]">>,
      <<"x", "x", "x", " ", "x", "x", "x", "x">> }

ArgStrings == StringsUpTo(MaxArgLen) \cup SampleStrings

ToolCall(id, function) == [id |-> id, function |-> function]

Function(name, arguments) == [name |-> name, arguments |-> arguments]

ToolCalls ==
    {ToolCall(id, Undefined) : id \in {Undefined, Str("call-1")}}
    \cup {ToolCall(id, Function(Str("f"), arguments)) :
            id \in {Undefined, Str("call-1")},
            arguments \in {Undefined} \cup {Chars(a) : a \in ArgStrings}}

SampleToolCallLists ==
    {Undefined, Arr(<<>>),
     Arr(<<ToolCall(Str("call-1"), Function(Str("f"), Chars(<<"[", "1", "]">>)))>>),
     Arr(<<ToolCall(Str("call-1"), Function(Str("f"), Chars(<<"x">>))),
           ToolCall(Str("call-2"), Function(Str("g"), Chars(<<>>)))>>),
     Arr(<<ToolCall(Str("call-1"), Function(Str("f"), Chars(<<"1">>))),
           ToolCall(Str("call-2"), Undefined)>>)}

\* the vendor's reasons, an absent one, and a reason that names an inherited
\* member of the table object
FinishReasons ==
    {Null, Str("stop"), Str("length"), Str("tool_calls"), Str("content_filter"),
     Str("function_call"), Str("constructor")}

Choice(index, finish_reason, content, tool_calls) ==
    [index |-> index, finish_reason |-> finish_reason,
     message |-> [content |-> content, tool_calls |-> tool_calls]]

ChunkChoice(index, finish_reason, content, tool_calls) ==
    [index |-> index, finish_reason |-> finish_reason,
     delta |-> [content |-> content, tool_calls |-> tool_calls]]

\* every content with no tool calls; every tool-call list and finish reason
\* with a few contents
ChoiceInputs ==
    {<<index, reason, content, calls>> :
        index \in {0}, reason \in {Str("stop")},
        content \in {Null} \cup {Chars(a) : a \in ArgStrings},
        calls \in {Undefined, Arr(<<>>)}}
    \cup {<<index, reason, content, calls>> :
            index \in {0, 1}, reason \in FinishReasons,
            content \in {Null, Chars(<<"x">>), Chars(<<"[", "1", "]">>)},
            calls \in SampleToolCallLists}

ConverterInputs ==
    {[kind |-> "toolCall", v |-> t] : t \in ToolCalls}
    \cup {[kind |-> "choice", v |-> Choice(c[1], c[2], c[3], c[4])] : c \in ChoiceInputs}
    \cup {[kind |-> "chunkChoice", v |-> ChunkChoice(c[1], c[2], c[3], c[4])] :
            c \in ChoiceInputs}

InitConv ==
    /\ pc = "call"
    /\ arg \in ConverterInputs
    /\ jsonMode \in BOOLEAN
    /\ (arg.kind = "toolCall" => jsonMode = FALSE)
    /\ ret = NoValue
    /\ modelName = ""
    /\ request = NoValue
    /\ out = NoValue
    /\ RunIdle

FromOpenAiToolCall ==
    /\ pc = "call"
    /\ arg.kind = "toolCall"
    /\ ret' = fromOpenAiToolCall(arg.v)
    /\ pc' = "converted"
    /\ UNCHANGED <<callVars, arg, jsonMode, runVars>>

FromOpenAiChoice ==
    /\ pc = "call"
    /\ arg.kind = "choice"
    /\ ret' = fromOpenAiChoice(arg.v, jsonMode)
    /\ pc' = "converted"
    /\ UNCHANGED <<callVars, arg, jsonMode, runVars>>

FromOpenAiChunkChoice ==
    /\ pc = "call"
    /\ arg.kind = "chunkChoice"
    /\ ret' = fromOpenAiChunkChoice(arg.v, jsonMode)
    /\ pc' = "converted"
    /\ UNCHANGED <<callVars, arg, jsonMode, runVars>>

NextConv == FromOpenAiToolCall \/ FromOpenAiChoice \/ FromOpenAiChunkChoice

SpecConv == InitConv /\ [][NextConv]_vars

(***************************************************************************)
(* Properties of the converters, checked under SpecConv.                   *)
(***************************************************************************)
Converted(kind) == pc = "converted" /\ arg.kind = kind

Parses(v) == JSONparseValue(v).ok

Parsed(v) == JSONparseValue(v).val

\* C9: a tool call that has its function payload converts without raising:
\* arguments that parse as JSON give the parsed value as the input, arguments
\* that do not parse or are empty or absent give the arguments unchanged, and
\* the name and the call identifier are copied.
C9_ArgumentsNeverRaise ==
    (Converted("toolCall") /\ Truthy(arg.v.function))
    => LET arguments == arg.v.function.arguments
       IN  /\ ret.ok
           /\ ret.val.toolRequest.name = arg.v.function.name
           /\ ret.val.toolRequest.ref = arg.v.id
           /\ ret.val.toolRequest.input =
                 IF Truthy(arguments) /\ Parses(arguments) THEN Parsed(arguments)
                 ELSE arguments
           /\ arguments = Chars(<<"{", "\"", "x", "\"", ":", "1", "}">>)
                 => ret.val.toolRequest.input = Obj(<<[k |-> <<"x">>, v |-> Num(1)]>>)
           /\ arguments = Chars(<<"[", "1", "]">>)
                 => ret.val.toolRequest.input = Arr(<<Num(1)>>)
           /\ arguments = Chars(<<" ", "1", "0">>)
                 => ret.val.toolRequest.input = Num(10)

C9_Witness ==
    /\ Converted("toolCall")
    /\ arg.v.function = Function(Str("f"), Chars(<<"x", "x", "x", " ", "x", "x", "x", "x">>))
    /\ arg.v.id = Str("call-1")
    /\ ret.ok
    /\ ret.val.toolRequest.input = Chars(<<"x", "x", "x", " ", "x", "x", "x", "x">>)

NoToolCalls(choice) ==
    \/ IsUndefined(choice.message.tool_calls)
    \/ IsEmptyArray(choice.message.tool_calls)

\* C10: a choice with no tool calls converts, with jsonMode, to the one part
\* {data: parsed content}, or raises when the content does not parse; without
\* jsonMode, to the one part {text: content}.
C10_JsonModeOrText ==
    (Converted("choice") /\ NoToolCalls(arg.v))
    => LET content == arg.v.message.content
       IN  IF jsonMode
           THEN IF Parses(content)
                THEN /\ ret.ok
                     /\ ret.val.message.content = <<[data |-> Parsed(content)]>>
                     /\ content = Chars(<<"[", "1", "]">>)
                           => ret.val.message.content = <<[data |-> Arr(<<Num(1)>>)]>>
                ELSE ~ret.ok /\ ret.error = "SyntaxError"
           ELSE ret.ok /\ ret.val.message.content = <<[text |-> content]>>

C10_Witness ==
    /\ Converted("choice")
    /\ jsonMode
    /\ IsUndefined(arg.v.message.tool_calls)
    /\ arg.v.message.content = Chars(<<"{", "\"", "x", "\"", ":", "1", "}">>)
    /\ ret.ok
    /\ ret.val.message.content = <<[data |-> Obj(<<[k |-> <<"x">>, v |-> Num(1)]>>)]>>

\* the finish reason the table of the claim gives a vendor reason
TableReason(reason) ==
    CASE reason = Str("length") -> Str("length")
      [] reason = Str("stop") -> Str("stop")
      [] reason = Str("tool_calls") -> Str("stop")
      [] reason = Str("content_filter") -> Str("blocked")
      [] OTHER -> Str("other")

\* C11: fromOpenAiChoice gives length, stop, stop, blocked for the vendor
\* reasons length, stop, tool_calls, content_filter and other for every other
\* reason, an absent one included; fromOpenAiChunkChoice gives the same for a
\* present reason and unknown for an absent one.
C11_FinishReasonTable ==
    /\ (Converted("choice") /\ ret.ok)
          => ret.val.finishReason = TableReason(arg.v.finish_reason)
    /\ (Converted("chunkChoice") /\ ret.ok)
          => ret.val.finishReason =
                IF arg.v.finish_reason = Null THEN Str("unknown")
                ELSE TableReason(arg.v.finish_reason)

\* C17: a streaming fragment choice and a full choice with the same index,
\* the same present finish reason, the same tool-call list (present, absent
\* or empty), the same content and the same jsonMode convert to the same
\* candidate, or fail alike.
C17_SharedConversion ==
    /\ (Converted("chunkChoice") /\ arg.v.finish_reason # Null)
          => ret = fromOpenAiChoice(Choice(arg.v.index, arg.v.finish_reason,
                                           arg.v.delta.content, arg.v.delta.tool_calls),
                                    jsonMode)
    /\ (Converted("choice") /\ arg.v.finish_reason # Null)
          => ret = fromOpenAiChunkChoice(ChunkChoice(arg.v.index, arg.v.finish_reason,
                                                     arg.v.message.content,
                                                     arg.v.message.tool_calls),
                                         jsonMode)

(***************************************************************************)
(* SpecMsg: one call of toOpenAIRole, of toOpenAiTextAndMedia or of        *)
(* toOpenAiMessages.  The message lists are every single message of a role *)
(* with at most MaxParts parts, and every list of at most MaxMessages of   *)
(* the listed messages.                                                    *)
(***************************************************************************)
MaxParts == 2

MaxMessages == 2

\* the four roles of the generic message and two values outside them
Roles == {"user", "model", "system", "tool", "function", "assistant"}

VisualDetailLevels == {Undefined, Str("auto"), Str("low"), Str("high")}

\* parts of each variant, with and without a call identifier, with outputs
\* and inputs of each JSON type; an empty text; a part with two fields set
\* and a part with none
SampleParts ==
    { TextPart(<<"x">>), TextPart(<<"1", " ">>), TextPart(<<>>),
      MediaPart("data:image/png"),
      Part(Chars(<<"x">>), [url |-> Str("data:image/png")], Undefined, Undefined),
      Part(Undefined, Undefined, Undefined, Undefined),
      ToolRequestPart("f", Str("call-1"), Obj(<<[k |-> <<"x">>, v |-> Num(1)]>>)),
      ToolRequestPart("g", Undefined, Arr(<<Num(1), Chars(<<"x">>)>>)),
      ToolRequestPart("g", Null, Undefined),
      ToolResponsePart("f", Str("call-1"), Chars(<<"x">>)),
      ToolResponsePart("g", Str("call-2"), Obj(<<[k |-> <<"x">>, v |-> Arr(<<Num(1)>>)]>>)),
      ToolResponsePart("g", Undefined, Num(10)),
      ToolResponsePart("f", Null, Undefined) }

Contents == UNION {[1..n -> SampleParts] : n \in 0..MaxParts}

ListedMessages ==
    { Message("system", <<TextPart(<<"x">>)>>),
      Message("user", <<TextPart(<<"x">>), MediaPart("data:image/png")>>),
      Message("user", <<ToolRequestPart("g", Null, Undefined)>>),
      Message("model", <<TextPart(<<"1", " ">>), TextPart(<<"x">>)>>),
      Message("model", <<ToolRequestPart("f", Str("call-1"), Num(1))>>),
      Message("tool", <<ToolResponsePart("f", Str("call-1"), Num(1)),
                        ToolResponsePart("g", Undefined, Chars(<<"x">>))>>),
      Message("tool", <<TextPart(<<"x">>)>>),
      Message("function", <<TextPart(<<"x">>)>>) }

MessageLists ==
    {<<Message(role, content)>> : role \in Roles, content \in Contents}
    \cup UNION {[1..n -> ListedMessages] : n \in 0..MaxMessages}

MessageInputs ==
    {[kind |-> "role", role |-> role] : role \in Roles}
    \cup {[kind |-> "part", part |-> part, detail |-> d] :
            part \in SampleParts, d \in VisualDetailLevels \ {Undefined}}
    \cup {[kind |-> "messages", messages |-> list, detail |-> d] :
            list \in MessageLists, d \in VisualDetailLevels}

InitMsg ==
    /\ pc = "call"
    /\ arg \in MessageInputs
    /\ jsonMode = FALSE
    /\ ret = NoValue
    /\ modelName = ""
    /\ request = NoValue
    /\ out = NoValue
    /\ RunIdle

ToOpenAIRole ==
    /\ pc = "call"
    /\ arg.kind = "role"
    /\ ret' = toOpenAIRole(arg.role)
    /\ pc' = "converted"
    /\ UNCHANGED <<callVars, arg, jsonMode, runVars>>

ToOpenAiTextAndMedia ==
    /\ pc = "call"
    /\ arg.kind = "part"
    /\ ret' = toOpenAiTextAndMedia(arg.part, arg.detail)
    /\ pc' = "converted"
    /\ UNCHANGED <<callVars, arg, jsonMode, runVars>>

ToOpenAiMessages ==
    /\ pc = "call"
    /\ arg.kind = "messages"
    /\ ret' = toOpenAiMessages(arg.messages, arg.detail)
    /\ pc' = "converted"
    /\ UNCHANGED <<callVars, arg, jsonMode, runVars>>

NextMsg == ToOpenAIRole \/ ToOpenAiTextAndMedia \/ ToOpenAiMessages

SpecMsg == InitMsg /\ [][NextMsg]_vars

(***************************************************************************)
(* Properties of the request converters, checked under SpecMsg.            *)
(***************************************************************************)
ConvertedMessages == pc = "converted" /\ arg.kind = "messages"

HasToolResponse(part) == ~IsUndefined(part.toolResponse)

HasToolRequest(part) == ~IsUndefined(part.toolRequest)

\* the number of vendor messages a message stands for: one for each
\* tool-response part of a tool message, one for any other message
VendorCount(message) ==
    IF message.role = "tool"
    THEN Len(SelectSeq(message.content, HasToolResponse))
    ELSE 1

RECURSIVE VendorCountBefore(_, _)
VendorCountBefore(messages, j) ==
    IF j = 1 THEN 0
    ELSE VendorCountBefore(messages, j - 1) + VendorCount(messages[j - 1])

\* the vendor messages of the result that stand for the j-th message
Segment(j) ==
    SubSeq(ret.val,
           VendorCountBefore(arg.messages, j) + 1,
           VendorCountBefore(arg.messages, j) + VendorCount(arg.messages[j]))

IdOrEmpty(ref) == IF ref \in {Undefined, Null} THEN Str("") ELSE ref

\* C12: in a converted message list, a tool message with k tool-response
\* parts stands for exactly k vendor tool messages, in part order, the i-th
\* with the i-th part's call identifier ('' when it has none) and its output,
\* verbatim when a string and JSON-serialized otherwise; a tool message alone
\* always converts, to these messages and no other.
C12_ToolMessages ==
    /\ (ConvertedMessages /\ Len(arg.messages) = 1 /\ arg.messages[1].role = "tool")
          => ret.ok
    /\ (ConvertedMessages /\ ret.ok)
          => /\ Len(ret.val) = VendorCountBefore(arg.messages, Len(arg.messages) + 1)
             /\ \A j \in 1..Len(arg.messages) :
                   arg.messages[j].role = "tool"
                   => LET parts == SelectSeq(arg.messages[j].content, HasToolResponse)
                      IN  \A i \in 1..Len(parts) :
                             LET output == parts[i].toolResponse.output
                             IN  /\ Segment(j)[i] =
                                       [role |-> "tool",
                                        tool_call_id |-> IdOrEmpty(parts[i].toolResponse.ref),
                                        content |-> IF IsString(output) THEN output
                                                    ELSE JSONstringify(output)]
                                 /\ output = Num(10)
                                       => Segment(j)[i].content = Chars(<<"1", "0">>)
                                 /\ output = Chars(<<"x">>)
                                       => Segment(j)[i].content = Chars(<<"x">>)

C12_Witness ==
    /\ ConvertedMessages
    /\ arg.messages = <<Message("tool", <<ToolResponsePart("g", Undefined, Num(10)),
                                          ToolResponsePart("f", Str("call-1"), Chars(<<"x">>))>>)>>
    /\ ret = Return(<<[role |-> "tool", tool_call_id |-> Str(""),
                       content |-> Chars(<<"1", "0">>)],
                      [role |-> "tool", tool_call_id |-> Str("call-1"),
                       content |-> Chars(<<"x">>)]>>)

\* the text of the parts that have one, in order
RECURSIVE FlatText(_)
FlatText(content) ==
    IF content = <<>> THEN <<>>
    ELSE (IF "chars" \in DOMAIN Head(content).text THEN Head(content).text.chars
          ELSE <<>>)
         \o FlatText(Tail(content))

\* C13: in a converted message list, a model message stands for exactly one
\* assistant message: with a tool-request part, it has a tool-call list with
\* one entry per tool-request part in order (id the ref or '', type function,
\* the name, the JSON-serialized input) and no content; with none, it has the
\* flattened text as content and no tool-call list.  A model message alone
\* always converts.
C13_ModelMessage ==
    /\ (ConvertedMessages /\ Len(arg.messages) = 1 /\ arg.messages[1].role = "model")
          => ret.ok /\ Len(ret.val) = 1
    /\ (ConvertedMessages /\ ret.ok)
          => /\ Len(ret.val) = VendorCountBefore(arg.messages, Len(arg.messages) + 1)
             /\ \A j \in 1..Len(arg.messages) :
                   arg.messages[j].role = "model"
                   => LET content == arg.messages[j].content
                          requests == SelectSeq(content, HasToolRequest)
                      IN  IF requests # <<>>
                          THEN /\ Segment(j) =
                                     <<[role |-> "assistant",
                                        tool_calls |-> Arr(
                                          [i \in 1..Len(requests) |->
                                             [id |-> IdOrEmpty(requests[i].toolRequest.ref),
                                              type |-> "function",
                                              function |->
                                                [name |-> requests[i].toolRequest.name,
                                                 arguments |->
                                                    JSONstringify(
                                                       requests[i].toolRequest.input)]]])]>>
                               /\ \A i \in 1..Len(requests) :
                                     requests[i].toolRequest.input
                                        = Obj(<<[k |-> <<"x">>, v |-> Num(1)]>>)
                                     => Segment(j)[1].tool_calls.arr[i].function.arguments
                                           = Chars(<<"{", "\"", "x", "\"", ":", "1", "}">>)
                          ELSE Segment(j) = <<[role |-> "assistant",
                                               content |-> Chars(FlatText(content))]>>

C13_Witness ==
    /\ ConvertedMessages
    /\ arg.messages = <<Message("model",
                          <<TextPart(<<"x">>),
                            ToolRequestPart("g", Undefined, Arr(<<Num(1), Chars(<<"x">>)>>))>>)>>
    /\ ret = Return(<<[role |-> "assistant",
                       tool_calls |-> Arr(<<[id |-> Str(""), type |-> "function",
                                             function |->
                                               [name |-> Str("g"),
                                                arguments |->
                                                  Chars(<<"[", "1", ",", "\"", "x", "\"", "]">>)]]>>)]>>)

HasText(part) == ~IsUndefined(part.text)

HasMedia(part) == ~IsUndefined(part.media)

\* the vendor content item of a part that has text or media
ItemOf(part, detail) ==
    IF HasText(part) THEN [type |-> "text", text |-> part.text]
    ELSE [type |-> "image_url",
          image_url |-> [url |-> part.media.url,
                         detail |-> IF IsUndefined(detail) THEN Str("auto") ELSE detail]]

\* C14: a user message converts every part to one vendor content item in
\* order, a part with text to a text item with that text, a part with media
\* to an image item with the url and the detail level (auto when the caller
\* gives none); the conversion fails, with the unsupported-part error, exactly
\* when a part has neither text nor media.
C14_UserParts ==
    /\ (pc = "converted" /\ arg.kind = "part")
          => IF HasText(arg.part) \/ HasMedia(arg.part)
             THEN ret = Return(ItemOf(arg.part, arg.detail))
             ELSE ret = Throw("UnsupportedPart")
    /\ (ConvertedMessages /\ Len(arg.messages) = 1 /\ arg.messages[1].role = "user")
          => LET content == arg.messages[1].content
             IN  IF \A i \in 1..Len(content) : HasText(content[i]) \/ HasMedia(content[i])
                 THEN ret = Return(<<[role |-> "user",
                                      content |-> Arr([i \in 1..Len(content) |->
                                                         ItemOf(content[i], arg.detail)])]>>)
                 ELSE ret = Throw("UnsupportedPart")

GenericRoles == {"user", "model", "system", "tool"}

\* the j-th message converts: its role maps and, for a user message, every
\* part has a truthy text or media
Converts(message) ==
    /\ message.role \in GenericRoles
    /\ message.role = "user"
          => \A i \in 1..Len(message.content) :
                Truthy(message.content[i].text) \/ Truthy(message.content[i].media)

\* C15: toOpenAIRole gives user, assistant, system, tool for user, model,
\* system, tool and the unmappable-role error for any other role;
\* toOpenAiMessages fails, with no message list, whenever a message has a role
\* outside the four, and with the unmappable-role error when every message
\* before the first such one converts.
C15_RoleMapping ==
    /\ (pc = "converted" /\ arg.kind = "role")
          => ret = CASE arg.role = "user" -> Return("user")
                     [] arg.role = "model" -> Return("assistant")
                     [] arg.role = "system" -> Return("system")
                     [] arg.role = "tool" -> Return("tool")
                     [] OTHER -> Throw("UnmappableRole")
    /\ ConvertedMessages
          => \A j \in 1..Len(arg.messages) :
                arg.messages[j].role \notin GenericRoles
                => /\ ~ret.ok
                   /\ "val" \notin DOMAIN ret
                   /\ (\A i \in 1..(j - 1) : Converts(arg.messages[i]))
                         => ret = Throw("UnmappableRole")

C15_Witness ==
    /\ ConvertedMessages
    /\ arg.messages = <<Message("system", <<TextPart(<<"x">>)>>),
                        Message("function", <<TextPart(<<"x">>)>>)>>
    /\ ret = Throw("UnmappableRole")

(***************************************************************************)
(* gptRunner.  The runner builds the body, then either streams (a          *)
(* streamingCallback was given): one step per chunk the stream delivers,   *)
(* then the final completion; or awaits the one completion.  Chunks and    *)
(* completions are the transport's to choose.                              *)
(***************************************************************************)
Chunk(choices) == [choices |-> choices]

TextDelta(index, chars) == ChunkChoice(index, Null, Chars(chars), Undefined)

ToolDelta(index, function) ==
    ChunkChoice(index, Null, Null, Arr(<<ToolCall(Str("call-1"), function)>>))

SampleChunks ==
    { Chunk(Undefined),
      Chunk(Arr(<<>>)),
      Chunk(Arr(<<TextDelta(0, <<"x">>)>>)),
      Chunk(Arr(<<TextDelta(0, <<"[", "1">>), TextDelta(1, <<"x">>)>>)),
      Chunk(Arr(<<ToolDelta(0, Function(Str("f"), Chars(<<"[", "1", "]">>)))>>)),
      Chunk(Arr(<<ChunkChoice(1, Str("stop"), Null, Undefined)>>)),
      Chunk(Arr(<<TextDelta(1, <<"1">>), ToolDelta(0, Undefined),
                  TextDelta(0, <<"x">>)>>)) }

Completion(choices, usage) == [choices |-> choices, usage |-> usage]

Usage == [prompt_tokens |-> Num(1), completion_tokens |-> Num(2), total_tokens |-> Num(3)]

SampleCompletions ==
    { Completion(<<Choice(0, Str("stop"), Chars(<<"x">>), Undefined)>>, Usage),
      Completion(<<Choice(0, Str("stop"), Chars(<<"[", "1", "]">>), Undefined),
                   Choice(1, Str("length"), Chars(<<"[", "1">>), Undefined)>>, Undefined),
      Completion(<<Choice(0, Str("tool_calls"), Null,
                          Arr(<<ToolCall(Str("call-1"),
                                         Function(Str("f"), Chars(<<"x">>)))>>))>>, Usage),
      Completion(<<Choice(0, Str("tool_calls"), Null,
                          Arr(<<ToolCall(Str("call-1"), Undefined)>>))>>, Usage) }

RunnerRequests ==
    {MakeRequest(c) :
       c \in {c \in FieldChoices :
                /\ DOMAIN c \subseteq {"format", "messages"}
                /\ "format" \in DOMAIN c => c["format"] \in {1, 2}
                /\ "messages" \in DOMAIN c => c["messages"] \in {1, 4}}}

RunnerNames == {"gpt-4o", "gpt-4", "gpt-5"}

\* streamingCallback({index: c.index, content: c.message.content})
CallbackArgument(c) == [index |-> c.index, content |-> c.message.content]

\* choices.forEach(chunk => { c = fromOpenAiChunkChoice(chunk);
\* streamingCallback({index, content}) }): the callbacks made, and the throw
\* that ended the loop if one did
RECURSIVE ForEachChoice(_, _), AfterChunkChoice(_, _, _)
ForEachChoice(choices, calls) ==
    IF choices = <<>> THEN [ok |-> TRUE, calls |-> calls]
    ELSE AfterChunkChoice(fromOpenAiChunkChoice(Head(choices), FALSE),
                          Tail(choices), calls)

\* a loop that skips a choice whose conversion throws and goes on
AfterChunkChoiceSkipping(c, rest, calls) ==
    IF ~c.ok THEN ForEachChoice(rest, calls)
    ELSE ForEachChoice(rest, Append(calls, CallbackArgument(c.val)))

\* c is the conversion of the choice before those of rest
AfterChunkChoice(c, rest, calls) ==
    IF ~c.ok THEN [ok |-> FALSE, calls |-> calls, error |-> c.error]
    ELSE ForEachChoice(rest, Append(calls, CallbackArgument(c.val)))

\* a forEach that calls back for the first choice of a chunk only
ChunkCallbacksFirstOnly(chunk) ==
    IF IsArray(chunk.choices) /\ chunk.choices.arr # <<>>
    THEN ForEachChoice(<<Head(chunk.choices.arr)>>, <<>>)
    ELSE [ok |-> TRUE, calls |-> <<>>]

\* chunk.choices?.forEach(...)
ChunkCallbacks(chunk) ==
    IF IsArray(chunk.choices) THEN ForEachChoice(chunk.choices.arr, <<>>)
    ELSE [ok |-> TRUE, calls |-> <<>>]

\* response.choices.map(c => fromOpenAiChoice(c, jsonMode))
RECURSIVE MapChoices(_, _, _), AfterChoice(_, _, _, _)
MapChoices(choices, json, acc) ==
    IF choices = <<>> THEN Return(acc)
    ELSE AfterChoice(fromOpenAiChoice(Head(choices), json), Tail(choices), json, acc)

\* c is the conversion of the choice before those of rest
AfterChoice(c, rest, json, acc) ==
    IF ~c.ok THEN c ELSE MapChoices(rest, json, Append(acc, c.val))

UsageOf(completion) ==
    IF IsUndefined(completion.usage)
    THEN [inputTokens |-> Undefined, outputTokens |-> Undefined,
          totalTokens |-> Undefined]
    ELSE [inputTokens |-> completion.usage.prompt_tokens,
          outputTokens |-> completion.usage.completion_tokens,
          totalTokens |-> completion.usage.total_tokens]

\* the response literal around candidates that were computed or threw
ResponseOf(candidates, completion) ==
    IF ~candidates.ok THEN candidates
    ELSE Return([candidates |-> candidates.val,
                 usage |-> UsageOf(completion),
                 custom |-> completion])

\* the value the runner returns for a completion
GenerateResponse(completion, req) ==
    ResponseOf(MapChoices(completion.choices, req.output.format = Str("json"), <<>>),
               completion)

Init ==
    /\ pc = "start"
    /\ modelName \in RunnerNames
    /\ request \in RunnerRequests
    /\ streaming \in BOOLEAN
    /\ out = NoValue
    /\ chunks = <<>>
    /\ response = NoValue
    /\ callbacks = <<>>
    /\ transport = <<>>
    /\ arg = NoValue
    /\ jsonMode = FALSE
    /\ ret = NoValue

\* const body = toOpenAiRequestBody(name, request), then the call on the client
GptRunnerStart ==
    /\ pc = "start"
    /\ \E body \in {toOpenAiRequestBody(modelName, request)} :
           IF ~body.ok
           THEN /\ pc' = "failed"
                /\ out' = body
                /\ UNCHANGED transport
           ELSE /\ pc' = IF streaming THEN "streaming" ELSE "create"
                /\ transport' = Append(transport,
                                       [call |-> IF streaming THEN "stream" ELSE "create",
                                        body |-> body.val])
                /\ UNCHANGED out
    /\ UNCHANGED <<modelName, request, convVars, streaming, chunks, response, callbacks>>

\* one turn of for await (const chunk of stream)
StreamChunk ==
    /\ pc = "streaming"
    /\ Len(chunks) < MaxChunks
    /\ \E chunk \in SampleChunks :
          \E done \in {ChunkCallbacks(chunk)} :
              /\ chunks' = Append(chunks, chunk)
              /\ callbacks' = callbacks \o done.calls
              /\ IF done.ok
                 THEN pc' = "streaming" /\ UNCHANGED out
                 ELSE pc' = "failed" /\ out' = Throw(done.error)
    /\ UNCHANGED <<modelName, request, convVars, streaming, response, transport>>

\* the stream is exhausted: response = await stream.finalChatCompletion()
StreamEnd ==
    /\ pc = "streaming"
    /\ pc' = "final"
    /\ transport' = Append(transport, [call |-> "finalChatCompletion"])
    /\ UNCHANGED <<callVars, convVars, streaming, chunks, response, callbacks>>

\* the awaited completion arrives and the runner returns its conversion
Respond ==
    /\ pc \in {"create", "final"}
    /\ \E completion \in SampleCompletions :
          \E result \in {GenerateResponse(completion, request)} :
              /\ response' = completion
              /\ out' = result
              /\ pc' = IF result.ok THEN "done" ELSE "failed"
    /\ UNCHANGED <<modelName, request, convVars, streaming, chunks, callbacks, transport>>

\* the stream or the awaited call rejects
TransportFails ==
    /\ pc \in {"streaming", "create", "final"}
    /\ pc' = "failed"
    /\ out' = Throw("TransportError")
    /\ UNCHANGED <<modelName, request, convVars, runVars>>

Next == GptRunnerStart \/ StreamChunk \/ StreamEnd \/ Respond \/ TransportFails

Spec == Init /\ [][Next]_vars

(***************************************************************************)
(* Properties of gptRunner, checked under Spec.                            *)
(***************************************************************************)
RECURSIVE FragmentsOf(_)
\* the fragments of a stream: the choices of its chunks, in order
FragmentsOf(stream) ==
    IF stream = <<>> THEN <<>>
    ELSE (IF IsArray(Head(stream).choices) THEN Head(stream).choices.arr ELSE <<>>)
         \o FragmentsOf(Tail(stream))

ExpectedCallback(fragment) ==
    [index |-> fragment.index,
     content |-> fromOpenAiChunkChoice(fragment, FALSE).val.message.content]

\* C2: in a streaming run that has not failed, the callback invocations so
\* far are, one per fragment delivered and in fragment order, the fragment's
\* own index and converted content; when the run returns, that is all N of
\* them, the final completion was asked for after the stream, and the value
\* returned is the conversion of that completion.
C2_CallbackPerFragment ==
    /\ (streaming /\ pc \in {"streaming", "final", "done"})
       => LET fragments == FragmentsOf(chunks)
          IN  /\ Len(callbacks) = Len(fragments)
              /\ \A i \in 1..Len(fragments) : callbacks[i] = ExpectedCallback(fragments[i])
    /\ (streaming /\ pc = "done")
       => /\ [i \in 1..Len(transport) |-> transport[i].call]
                = <<"stream", "finalChatCompletion">>
          /\ out = GenerateResponse(response, request)
          /\ out.ok
    /\ pc # "done" => (out = NoValue \/ ~out.ok)
    /\ ~streaming => callbacks = <<>>

C2_Witness ==
    /\ streaming
    /\ pc = "done"
    /\ Len(chunks) = 3
    /\ Len(callbacks) = 4
    /\ callbacks[2] = [index |-> 1, content |-> <<[text |-> Chars(<<"x">>)]>>]
    /\ callbacks[3].index = 0
    /\ Len(out.val.candidates) = 2

BuildFails == ~toOpenAiRequestBody(modelName, request).ok

FragmentFails(fragment) == ~fromOpenAiChunkChoice(fragment, FALSE).ok

\* the fragments delivered before the first one whose conversion fails
RECURSIVE ConvertedPrefix(_)
ConvertedPrefix(fragments) ==
    IF fragments = <<>> \/ FragmentFails(Head(fragments)) THEN <<>>
    ELSE <<Head(fragments)>> \o ConvertedPrefix(Tail(fragments))

\* the run after a fatal error: failed, with the error and no response; after
\* a failed request building, no client call and no callback; after a failed
\* fragment conversion, callbacks for the fragments before it only and no
\* request for the final completion
FailedRun ==
    /\ (pc # "start" /\ BuildFails)
          => /\ pc = "failed"
             /\ out = toOpenAiRequestBody(modelName, request)
             /\ transport = <<>>
             /\ callbacks = <<>>
             /\ response = NoValue
    /\ (\E i \in 1..Len(FragmentsOf(chunks)) : FragmentFails(FragmentsOf(chunks)[i]))
          => /\ pc = "failed"
             /\ ~out.ok
             /\ "val" \notin DOMAIN out
             /\ response = NoValue
             /\ Len(callbacks) = Len(ConvertedPrefix(FragmentsOf(chunks)))
             /\ \A i \in 1..Len(callbacks) :
                   callbacks[i] = ExpectedCallback(FragmentsOf(chunks)[i])
             /\ \A i \in 1..Len(transport) : transport[i].call # "finalChatCompletion"
    /\ pc = "failed" => ~out.ok

\* C18: in a run of the runner a fatal error ends the run in failure with
\* nothing after it: every state after a failed request building or a failed
\* fragment conversion is a failed run as above, and a failed run takes no
\* further step.
C18_FatalErrorEndsRun == []FailedRun /\ [][pc # "failed"]_vars

C18_Witness ==
    /\ streaming
    /\ pc = "failed"
    /\ modelName = "gpt-4o"
    /\ request.messages = <<Message("function", <<TextPart(<<"x">>)>>)>>
    /\ out = Throw("UnmappableRole")
    /\ transport = <<>>
    /\ callbacks = <<>>

(***************************************************************************)
(* SpecCalls: one call of a response converter, or one run of the runner.  *)
(***************************************************************************)
InitCalls == InitConv \/ Init

NextCalls == NextConv \/ Next

SpecCalls == InitCalls /\ [][NextCalls]_vars

\* an entry of the tool-call list has no function payload
HasMalformedEntry(tool_calls) ==
    /\ IsArray(tool_calls)
    /\ \E i \in 1..Len(tool_calls.arr) : Falsy(tool_calls.arr[i].function)

\* the fragments delivered before the first one with a malformed entry
RECURSIVE WellFormedPrefix(_)
WellFormedPrefix(fragments) ==
    IF fragments = <<>> \/ HasMalformedEntry(Head(fragments).delta.tool_calls)
    THEN <<>>
    ELSE <<Head(fragments)>> \o WellFormedPrefix(Tail(fragments))

\* C16: a tool-call entry without its function payload is a hard error:
\* fromOpenAiToolCall raises the malformed-tool-call error, and so do
\* fromOpenAiChoice and fromOpenAiChunkChoice on a list that has such an entry,
\* whatever the other entries, the content and jsonMode; a run of the runner
\* that receives such an entry, in a streamed fragment or in the completion,
\* ends failed with that error and no response, and no callback is made for
\* the fragment.
C16_MalformedToolCallFails ==
    /\ (Converted("toolCall") /\ Falsy(arg.v.function))
          => ret = Throw("MalformedToolCall")
    /\ (Converted("choice") /\ HasMalformedEntry(arg.v.message.tool_calls))
          => ret = Throw("MalformedToolCall")
    /\ (Converted("chunkChoice") /\ HasMalformedEntry(arg.v.delta.tool_calls))
          => ret = Throw("MalformedToolCall")
    /\ (\E i \in 1..Len(FragmentsOf(chunks)) :
           HasMalformedEntry(FragmentsOf(chunks)[i].delta.tool_calls))
          => /\ pc = "failed"
             /\ out = Throw("MalformedToolCall")
             /\ Len(callbacks) = Len(WellFormedPrefix(FragmentsOf(chunks)))
             /\ \A i \in 1..Len(transport) : transport[i].call = "stream"
    /\ (response # NoValue
        /\ \E i \in 1..Len(response.choices) :
              HasMalformedEntry(response.choices[i].message.tool_calls))
          => /\ pc = "failed"
             /\ ~out.ok
             /\ "val" \notin DOMAIN out
             /\ HasMalformedEntry(response.choices[1].message.tool_calls)
                   => out = Throw("MalformedToolCall")

C16_Witness ==
    /\ streaming
    /\ pc = "failed"
    /\ Len(chunks) = 2
    /\ chunks[2] = Chunk(Arr(<<TextDelta(1, <<"1">>), ToolDelta(0, Undefined),
                               TextDelta(0, <<"x">>)>>))
    /\ out = Throw("MalformedToolCall")
    /\ callbacks[Len(callbacks)] = [index |-> 1, content |-> <<[text |-> Chars(<<"1">>)]>>]

====
